---- MODULE Spec2Model ----
(***************************************************************************)
(* Model of the GPT webhook server (class WebhookServer): the Express      *)
(* middleware chain and routes, handleWebhook with its best-effort insert,  *)
(* the startup connection to MongoDB, and the signal-driven shutdown.       *)
(***************************************************************************)
EXTENDS Integers, Sequences, FiniteSets, TLC

\* ------------------------------------------------------------------ bounds
\* Number of insertOne calls explored (each gets a fresh identifier).
MaxInserts == 1
\* Number of termination signals delivered to the process.
MaxSignals == 2

\* -------------------------------------------------------- JSON values
\* A JSON value as JavaScript sees it; Absent is `undefined` (no such key).
Absent == [t |-> "absent"]
Null == [t |-> "null"]
Str(s) == [t |-> "str", s |-> s]
Num(n) == [t |-> "num", n |-> n]
Bool(b) == [t |-> "bool", b |-> b]
\* A nested object, identified by its serialization.
Obj(s) == [t |-> "obj", s |-> s]

\* JavaScript truthiness, as the || operator of handleWebhook tests it.
Truthy(v) ==
  CASE v.t = "str" -> v.s # ""
    [] v.t = "num" -> v.n # 0
    [] v.t = "bool" -> v.b
    [] v.t = "obj" -> TRUE
    [] OTHER -> FALSE

\* JSON.stringify of one value.
JsonOf(v) ==
  CASE v.t = "str" -> "\"" \o v.s \o "\""
    [] v.t = "num" -> ToString(v.n)
    [] v.t = "bool" -> (IF v.b THEN "true" ELSE "false")
    [] v.t = "obj" -> v.s
    [] OTHER -> "null"

\* The keys handleWebhook reads, in the order the payload lists them.
BodyKeys == <<"message", "text", "user", "userInfo">>

\* A parsed body: an object with some of BodyKeys, or an array of values.
ObjectBody(m, t, u, ui) ==
  [kind |-> "object", message |-> m, text |-> t, user |-> u, userInfo |-> ui,
   items |-> <<>>]
ArrayBody(items) ==
  [kind |-> "array", message |-> Absent, text |-> Absent, user |-> Absent,
   userInfo |-> Absent, items |-> items]

\* Property access webhookData.<key>: undefined on an array.
Field(data, key) == IF data.kind = "object" THEN data[key] ELSE Absent

RECURSIVE JoinMembers(_, _, _)
JoinMembers(data, i, first) ==
  IF i > Len(BodyKeys) THEN ""
  ELSE LET k == BodyKeys[i]
           v == data[k]
       IN IF v = Absent THEN JoinMembers(data, i + 1, first)
          ELSE (IF first THEN "" ELSE ",") \o "\"" \o k \o "\":" \o JsonOf(v)
               \o JoinMembers(data, i + 1, FALSE)

RECURSIVE JoinItems(_, _)
JoinItems(items, i) ==
  IF i > Len(items) THEN ""
  ELSE (IF i = 1 THEN "" ELSE ",") \o JsonOf(items[i]) \o JoinItems(items, i + 1)

\* JSON.stringify(webhookData).
Stringify(data) ==
  IF data.kind = "object" THEN "{" \o JoinMembers(data, 1, TRUE) \o "}"
  ELSE "[" \o JoinItems(data.items, 1) \o "]"

\* Variant: a field counts when it is present (as ?? or an `in` test would take
\* it), not when it is truthy.
ExtractMessage_Present(data) ==
  IF Field(data, "message") # Absent THEN Field(data, "message")
  ELSE IF Field(data, "text") # Absent THEN Field(data, "text")
  ELSE Str(Stringify(data))

\* message = webhookData.message || webhookData.text || JSON.stringify(webhookData)
ExtractMessage(data) ==
  IF Truthy(Field(data, "message")) THEN Field(data, "message")
  ELSE IF Truthy(Field(data, "text")) THEN Field(data, "text")
  ELSE Str(Stringify(data))

\* userInfo = webhookData.user || webhookData.userInfo || { ip, userAgent }
ExtractUserInfo(data) ==
  IF Truthy(Field(data, "user")) THEN Field(data, "user")
  ELSE IF Truthy(Field(data, "userInfo")) THEN Field(data, "userInfo")
  ELSE Obj("{\"ip\":\"::1\",\"userAgent\":\"curl\"}")

\* Values a payload field takes in the field-extraction specification.
FieldValues ==
  {Absent, Null, Str(""), Str("hi"), Str("yo"), Num(0), Num(5), Bool(FALSE),
   Bool(TRUE), Obj("{\"a\":1}")}

ExtractBodies ==
  {ObjectBody(m, t, Absent, Absent) : m \in FieldValues, t \in FieldValues}
    \cup {ArrayBody(<<>>), ArrayBody(<<Str("hi")>>), ArrayBody(<<Num(0), Null>>)}


\* ------------------------------------------------ connection strings
\* A connection string is a sequence of tokens: "/" and "?" stand alone, every
\* other token is a non-empty run of characters that are neither.
UrlTail(name, opts) == <<"/", name, "?", opts>>

Schemes == {<<"mongodb:">>, <<"mongodb+srv:">>}
Credentials == {<<>>, <<"user:secret@">>}
Hosts == {<<"localhost">>, <<"db.example.com">>}
Ports == {<<>>, <<":27017">>}
DbNames == {"mydb", "webhooks"}
Options == {"retryWrites=true", "authSource=admin"}

\* The structured connection string [scheme, cred, host, port, form, name, opts],
\* in the four forms scheme://host[:port], .../, .../name and .../name?options.
Urls ==
  [scheme : Schemes, cred : Credentials, host : Hosts, port : Ports,
   form : {"bare", "slash"}, name : {"mydb"}, opts : {"retryWrites=true"}]
    \cup [scheme : Schemes, cred : Credentials, host : Hosts, port : Ports,
          form : {"name"}, name : DbNames, opts : {"retryWrites=true"}]
    \cup [scheme : Schemes, cred : Credentials, host : Hosts, port : Ports,
          form : {"name_options"}, name : DbNames, opts : Options]

\* The text of the connection string, as process.env.MONGO_URL holds it.
UrlText(u) ==
  u.scheme \o <<"/", "/">> \o u.cred \o u.host \o u.port
    \o (CASE u.form = "bare" -> <<>>
          [] u.form = "slash" -> <<"/">>
          [] u.form = "name" -> <<"/", u.name>>
          [] OTHER -> UrlTail(u.name, u.opts))

RECURSIVE JoinTokens(_)
JoinTokens(toks) ==
  IF toks = <<>> THEN "" ELSE Head(toks) \o JoinTokens(Tail(toks))

InClass(tok) == tok # "/" /\ tok # "?"

\* Ends e of a match of /\/([^/?]+)(\?|$)/ that starts at token i: text[i] is
\* "/", text[i+1..e] is a non-empty run of the class, and then "?" or the end.
MatchEnds(text, i) ==
  IF text[i] # "/" THEN {}
  ELSE {e \in (i + 1)..Len(text) :
          /\ \A k \in (i + 1)..e : InClass(text[k])
          /\ (e = Len(text) \/ text[e + 1] = "?")}

MatchStarts(text) == {i \in 1..Len(text) : MatchEnds(text, i) # {}}

Min(S) == CHOOSE x \in S : \A y \in S : x <= y
Max(S) == CHOOSE x \in S : \A y \in S : x >= y

NoName == [found |-> FALSE, name |-> ""]

\* url.match(/\/([^/?]+)(\?|$)/): the leftmost match, its group 1 greedy.
extractDatabaseName(text) ==
  IF MatchStarts(text) = {} THEN NoName
  ELSE LET i == Min(MatchStarts(text))
           e == Max(MatchEnds(text, i))
       IN [found |-> TRUE, name |-> JoinTokens(SubSeq(text, i + 1, e))]

\* const dbName = this.extractDatabaseName(this.mongoUrl) || 'shared-db'
ResolveDbName(text) ==
  LET m == extractDatabaseName(text)
  IN IF m.found /\ m.name # "" THEN m.name ELSE "shared-db"


\* ------------------------------------------------------------- server
VARIABLES
  mongoUrl,            \* process.env.MONGO_URL (NoUrl when unset)
  nodeEnv,             \* process.env.NODE_ENV
  unparsedBody,        \* req.body when no parser handled the request
  pc,                  \* position of start(): awaiting a step, listening, exited
  client,              \* this.client is non-null
  db,                  \* this.db
  webhooksCollection,  \* this.webhooksCollection is non-null
  collExists,          \* the store holds the collection gpt-webhook-requests
  startupLog,          \* the line connectToMongoDB logged last
  conn,                \* the driver's connection: none, open, closing, closed
  nextId,              \* the next identifier the driver generates
  pending,             \* handleWebhook calls suspended at await insertOne
  stored,              \* the documents the store holds
  lastResp,            \* the response sent last
  signals,             \* termination signals received
  closers,             \* shutdown() calls suspended at await client.close()
  webhookData,         \* field extraction: the payload
  message,             \* field extraction: the derived message
  url,                 \* name extraction: the connection string
  dbName               \* name extraction: the database name used

serverVars ==
  <<mongoUrl, nodeEnv, unparsedBody, pc, client, db, webhooksCollection,
    collExists, startupLog, conn, nextId, pending, stored, lastResp, signals,
    closers>>
extractVars == <<webhookData, message>>
urlVars == <<url, dbName>>
vars == <<serverVars, extractVars, urlVars>>

NoUrl ==
  [scheme |-> <<>>, cred |-> <<>>, host |-> <<>>, port |-> <<>>,
   form |-> "unset", name |-> "", opts |-> ""]
NullDb == [open |-> FALSE, name |-> ""]
NoMessage == [t |-> "none"]
NoDbName == "<none>"

\* Connection strings the server specification starts with.
ServerUrls ==
  {u \in Urls : u.scheme = <<"mongodb:">> /\ u.cred = <<>> /\ u.port = <<>>
                /\ u.host = <<"localhost">> /\ u.form = "name"
                /\ u.name = "mydb"}

Methods == {"GET", "POST", "HEAD", "OPTIONS"}
Paths == {"/health", "/nahui-gpt/income", "/other"}
\* Payloads the server specification sends.
ServerBodies ==
  {ObjectBody(Str("hi"), Absent, Absent, Absent), ArrayBody(<<>>)}
\* A request body on the wire: JSON that parses, none (or not JSON), JSON
\* that does not parse, JSON above the 10mb limit.
Bodies ==
  {[kind |-> "json", data |-> d] : d \in ServerBodies}
    \cup {[kind |-> k, data |-> ArrayBody(<<>>)] :
            k \in {"none", "malformed", "oversized"}}

NoResponse ==
  [method |-> "", path |-> "", bodyKind |-> "", status |-> 0, success |-> "absent", msg |-> "", error |-> "",
   timestamp |-> "absent", id |-> 0, database |-> "", insert |-> "none"]

\* res.status(status).json({...}) for the request req.
Answer(req, status, success, msg, error, timestamp, id, database, insert) ==
  [method |-> req.method, path |-> req.path, bodyKind |-> req.bodyKind,
   status |-> status, success |-> success, msg |-> msg, error |-> error,
   timestamp |-> timestamp, id |-> id, database |-> database,
   insert |-> insert]


\* ------------------------------------------------ middleware and routes
\* cors(): an OPTIONS request is a preflight, answered 204 before any route.
preflightResponse(req) ==
  Answer(req, 204, "absent", "", "", "absent", 0, "", "none")

\* express.json({ limit: '10mb' }): the error the parser passes to next().
BodyParseFails(body) == body.kind \in {"malformed", "oversized"}
ParseError(body) ==
  IF body.kind = "oversized" THEN "request entity too large"
  ELSE "Unexpected token } in JSON at position 1"

\* errorHandler: the detail only when NODE_ENV is development.
errorHandler(req, error) ==
  Answer(req, 500, "false", "Internal server error",
         IF nodeEnv = "development" THEN error ELSE "Something went wrong",
         "absent", 0, "", "none")

\* Variant: routes registered with app.all/app.use, matching on the path only.
Route_AnyMethod(method, path) ==
  IF path = "/health" THEN "health"
  ELSE IF path = "/nahui-gpt/income" THEN "webhook"
  ELSE "notfound"

\* The route a request matches: app.get('/health') also serves HEAD.
Route(method, path) ==
  IF path = "/health" /\ method \in {"GET", "HEAD"} THEN "health"
  ELSE IF path = "/nahui-gpt/income" /\ method = "POST" THEN "webhook"
  ELSE "notfound"

\* GET /health
healthResponse(req) ==
  Answer(req, 200, "absent", "OK", "", "date", 0,
         IF db.open THEN "connected" ELSE "not connected", "none")

\* The 404 handler.
notFoundResponse(req) ==
  Answer(req, 404, "absent", "", "Endpoint not found", "absent", 0, "", "none")

\* -------------------------------------------------------- handleWebhook
\* req.body: the parsed JSON, or what Express leaves when nothing was parsed
\* ({} in Express 4, undefined in Express 5).
Undefined == [kind |-> "undefined"]
reqBody(body) ==
  IF body.kind = "json" THEN body.data
  ELSE IF unparsedBody = "object" THEN ObjectBody(Absent, Absent, Absent, Absent)
  ELSE Undefined

\* const requestRecord = { message, userInfo, timestamp, fullRequest }
requestRecord(data) ==
  [message |-> ExtractMessage(data), userInfo |-> ExtractUserInfo(data), _id |-> 0]

\* res.status(200).json({ success: true, ..., id: requestRecord._id })
successResponse(req, record, insert) ==
  Answer(req, 200, "true", "Webhook received and processed", "", "date",
         record._id, "", insert)

\* The outer catch of handleWebhook: error.message in every configuration.
catchResponse(req, error) ==
  Answer(req, 500, "false", "Error processing webhook", error, "absent", 0, "",
         "none")

\* Variant: no inner try/catch, the insert's error reaches the outer catch.
insertFailed_Propagated(req, record) ==
  catchResponse(req, "MongoNetworkError")

\* The inner catch around insertOne: log, then fall through to the response.
insertFailed(req, record) == successResponse(req, record, "failed")

\* The synchronous part of one request, through the middleware in the order
\* setupMiddleware and setupRoutes register it: a response, or a suspension at
\* await insertOne.
Handle(req, body) ==
  IF req.method = "OPTIONS" THEN [await |-> FALSE, resp |-> preflightResponse(req)]
  ELSE IF BodyParseFails(body)
    THEN [await |-> FALSE, resp |-> errorHandler(req, ParseError(body))]
  ELSE IF Route(req.method, req.path) = "health"
    THEN [await |-> FALSE, resp |-> healthResponse(req)]
  ELSE IF Route(req.method, req.path) = "notfound"
    THEN [await |-> FALSE, resp |-> notFoundResponse(req)]
  ELSE IF reqBody(body) = Undefined
    THEN [await |-> FALSE,
          resp |-> catchResponse(req,
                     "Cannot read properties of undefined (reading 'message')")]
  ELSE IF webhooksCollection
    THEN [await |-> TRUE, resp |-> NoResponse]
  ELSE [await |-> FALSE,
        resp |-> successResponse(req, requestRecord(reqBody(body)), "skipped")]

\* A request arrives while the port is bound.  With a collection, insertOne is
\* called: the driver gives the document its _id and the handler suspends.
HttpRequest ==
  \E method \in Methods, path \in Paths, body \in Bodies :
    LET req == [method |-> method, path |-> path, bodyKind |-> body.kind]
        h == Handle(req, body)
    IN /\ pc = "listening"
       /\ IF h.await
            THEN /\ nextId <= MaxInserts
                 /\ pending' = pending \cup
                      {[req |-> req,
                        record |-> [requestRecord(reqBody(body)) EXCEPT !._id = nextId]]}
                 /\ nextId' = nextId + 1
                 /\ UNCHANGED lastResp
            ELSE /\ lastResp' = h.resp
                 /\ UNCHANGED <<pending, nextId>>
       /\ UNCHANGED <<mongoUrl, nodeEnv, unparsedBody, pc, client, db,
                      webhooksCollection, collExists, startupLog, conn, stored,
                      signals, closers, extractVars, urlVars>>

\* insertOne resolves: the store holds the document under result.insertedId.
InsertResolved ==
  \E p \in pending :
    /\ pc = "listening"
    /\ stored' = stored \cup {p.record}
    /\ pending' = pending \ {p}
    /\ lastResp' = successResponse(p.req, p.record, "ok")
    /\ UNCHANGED <<mongoUrl, nodeEnv, unparsedBody, pc, client, db,
                   webhooksCollection, collExists, startupLog, conn, nextId,
                   signals, closers, extractVars, urlVars>>

\* insertOne rejects.  The driver adds _id to the document it was given before
\* it sends the write, so the document may already carry it.
InsertRejected ==
  \E p \in pending, stamped \in BOOLEAN :
    /\ pc = "listening"
    /\ pending' = pending \ {p}
    /\ lastResp' = insertFailed(p.req,
                     IF stamped THEN p.record ELSE [p.record EXCEPT !._id = 0])
    /\ UNCHANGED <<mongoUrl, nodeEnv, unparsedBody, pc, client, db,
                   webhooksCollection, collExists, startupLog, conn, nextId,
                   stored, signals, closers, extractVars, urlVars>>


\* ------------------------------------------------------------- startup
requestVars == <<nextId, pending, stored, lastResp>>
shutdownVars == <<signals, closers>>
envVars == <<mongoUrl, nodeEnv, unparsedBody>>

\* The catch of connectToMongoDB, then start() binds the port and registers
\* the signal handlers.
ContinueWithoutPersistence ==
  /\ startupLog' = "Continuing without database persistence..."
  /\ pc' = "listening"

\* connectToMongoDB without MONGO_URL: return at once; start() listens.
StartUnconfigured ==
  /\ pc = "start"
  /\ mongoUrl = NoUrl
  /\ startupLog' = "No MONGO_URL provided"
  /\ pc' = "listening"
  /\ UNCHANGED <<envVars, client, db, webhooksCollection, collExists, conn,
                 requestVars, shutdownVars, extractVars, urlVars>>

\* this.client = new MongoClient(...); await this.client.connect()
connectToMongoDB ==
  /\ pc = "start"
  /\ mongoUrl # NoUrl
  /\ client' = TRUE
  /\ pc' = "connecting"
  /\ UNCHANGED <<envVars, db, webhooksCollection, collExists, startupLog, conn,
                 requestVars, shutdownVars, extractVars, urlVars>>

\* connect() settles; on success this.db is set and initializeCollections
\* awaits listCollections.
ConnectSettled ==
  \E ok \in BOOLEAN :
    /\ pc = "connecting"
    /\ IF ok
         THEN /\ conn' = "open"
              /\ db' = [open |-> TRUE, name |-> ResolveDbName(UrlText(mongoUrl))]
              /\ pc' = "listing"
              /\ UNCHANGED startupLog
         ELSE /\ ContinueWithoutPersistence
              /\ UNCHANGED <<conn, db>>
    /\ UNCHANGED <<envVars, client, webhooksCollection, collExists, requestVars,
                   shutdownVars, extractVars, urlVars>>

\* listCollections settles: an existing collection is taken as it is.
ListSettled ==
  \E ok \in BOOLEAN :
    /\ pc = "listing"
    /\ IF ok /\ collExists
         THEN /\ webhooksCollection' = TRUE
              /\ startupLog' = "Successfully connected to MongoDB database"
              /\ pc' = "listening"
         ELSE IF ok
           THEN /\ pc' = "creating"
                /\ UNCHANGED <<webhooksCollection, startupLog>>
           ELSE /\ ContinueWithoutPersistence
                /\ UNCHANGED webhooksCollection
    /\ UNCHANGED <<envVars, client, db, collExists, conn, requestVars,
                   shutdownVars, extractVars, urlVars>>

\* createCollection settles; on success this.webhooksCollection is set and the
\* first createIndex is awaited.
CreateSettled ==
  \E ok \in BOOLEAN :
    /\ pc = "creating"
    /\ IF ok
         THEN /\ collExists' = TRUE
              /\ webhooksCollection' = TRUE
              /\ pc' = "index1"
              /\ UNCHANGED startupLog
         ELSE /\ ContinueWithoutPersistence
              /\ UNCHANGED <<collExists, webhooksCollection>>
    /\ UNCHANGED <<envVars, client, db, conn, requestVars, shutdownVars,
                   extractVars, urlVars>>

\* createIndex({ timestamp: -1 }) settles.
TimestampIndexSettled ==
  \E ok \in BOOLEAN :
    /\ pc = "index1"
    /\ IF ok
         THEN /\ pc' = "index2"
              /\ UNCHANGED startupLog
         ELSE ContinueWithoutPersistence
    /\ UNCHANGED <<envVars, client, db, webhooksCollection, collExists, conn,
                   requestVars, shutdownVars, extractVars, urlVars>>

\* createIndex({ 'userInfo.id': 1 }) settles.
UserIndexSettled ==
  \E ok \in BOOLEAN :
    /\ pc = "index2"
    /\ IF ok
         THEN /\ startupLog' = "Successfully connected to MongoDB database"
              /\ pc' = "listening"
         ELSE ContinueWithoutPersistence
    /\ UNCHANGED <<envVars, client, db, webhooksCollection, collExists, conn,
                   requestVars, shutdownVars, extractVars, urlVars>>

\* ------------------------------------------------------------ shutdown
\* SIGTERM or SIGINT runs shutdown(): with a client it awaits client.close(),
\* without one it exits at once.  The HTTP server is not closed.
shutdown ==
  /\ pc = "listening"
  /\ signals < MaxSignals
  /\ signals' = signals + 1
  /\ IF client
       THEN /\ closers' = closers \cup {signals + 1}
            /\ conn' = IF conn = "open" THEN "closing" ELSE conn
            /\ UNCHANGED pc
       ELSE /\ pc' = "exited"
            /\ UNCHANGED <<closers, conn>>
  /\ UNCHANGED <<envVars, client, db, webhooksCollection, collExists,
                 startupLog, requestVars, extractVars, urlVars>>

\* One shutdown()'s await client.close() settles, resolved or rejected, and
\* process.exit(0) follows.  The first call's close is the one that closes the
\* connection; a later call's promise is its own and may settle first.
CloseSettled ==
  \E c \in closers, ok \in BOOLEAN :
    /\ pc = "listening"
    /\ conn' = IF c = 1 /\ conn = "closing"
                 THEN (IF ok THEN "closed" ELSE "close failed")
                 ELSE conn
    /\ closers' = {}
    /\ pc' = "exited"
    /\ UNCHANGED <<envVars, client, db, webhooksCollection, collExists,
                   startupLog, requestVars, signals, extractVars, urlVars>>

\* ------------------------------------------------------- specifications
ExtractIdle == webhookData = ArrayBody(<<>>) /\ message = NoMessage
UrlIdle == url = NoUrl /\ dbName = NoDbName
ServerIdle ==
  /\ mongoUrl = NoUrl
  /\ nodeEnv = "production"
  /\ unparsedBody = "object"
  /\ collExists = FALSE
  /\ pc = "start"
  /\ client = FALSE
  /\ db = NullDb
  /\ webhooksCollection = FALSE
  /\ startupLog = ""
  /\ conn = "none"
  /\ nextId = 1
  /\ pending = {}
  /\ stored = {}
  /\ lastResp = NoResponse
  /\ signals = 0
  /\ closers = {}

\* The state after the constructor, for every configuration.
Init ==
  /\ mongoUrl \in {NoUrl} \cup ServerUrls
  /\ nodeEnv \in {"development", "production"}
  /\ unparsedBody \in {"object", "undefined"}
  /\ collExists \in (IF mongoUrl = NoUrl THEN {FALSE} ELSE BOOLEAN)
  /\ pc = "start"
  /\ client = FALSE
  /\ db = NullDb
  /\ webhooksCollection = FALSE
  /\ startupLog = ""
  /\ conn = "none"
  /\ nextId = 1
  /\ pending = {}
  /\ stored = {}
  /\ lastResp = NoResponse
  /\ signals = 0
  /\ closers = {}
  /\ ExtractIdle
  /\ UrlIdle

Next ==
  \/ StartUnconfigured
  \/ connectToMongoDB
  \/ ConnectSettled
  \/ ListSettled
  \/ CreateSettled
  \/ TimestampIndexSettled
  \/ UserIndexSettled
  \/ HttpRequest
  \/ InsertResolved
  \/ InsertRejected
  \/ shutdown
  \/ CloseSettled

Spec == Init /\ [][Next]_vars

\* Field extraction on its own: every payload, then the derived message.
ExtractFields ==
  /\ message = NoMessage
  /\ message' = requestRecord(webhookData).message
  /\ UNCHANGED <<webhookData, serverVars, urlVars>>

InitExtract ==
  /\ webhookData \in ExtractBodies
  /\ message = NoMessage
  /\ ServerIdle
  /\ UrlIdle

NextExtract == ExtractFields

SpecExtract == InitExtract /\ [][NextExtract]_vars

\* Name extraction on its own: every connection string, then the name
\* connectToMongoDB passes to client.db().
ResolveName ==
  /\ dbName = NoDbName
  /\ dbName' = ResolveDbName(UrlText(url))
  /\ UNCHANGED <<url, serverVars, extractVars>>

InitUrl ==
  /\ url \in Urls
  /\ dbName = NoDbName
  /\ ServerIdle
  /\ ExtractIdle

NextUrl == ResolveName

SpecUrl == InitUrl /\ [][NextUrl]_vars


\* --------------------------------------------------------- properties
IsWebhookResponse ==
  lastResp.method = "POST" /\ lastResp.path = "/nahui-gpt/income"

\* C1: every POST /nahui-gpt/income whose body parses as JSON is answered 200
\* with success = true and a timestamp, in every persistence state and for
\* every outcome of the insert; a failed or skipped insert never gives a 500.
C1_JsonWebhookAnswered200 ==
  (IsWebhookResponse /\ lastResp.bodyKind = "json")
    => /\ lastResp.status = 200
       /\ lastResp.success = "true"
       /\ lastResp.timestamp # "absent"

\* C1 witness: a JSON webhook whose insert threw has been answered 200.
C1_Witness ==
  /\ IsWebhookResponse
  /\ lastResp.bodyKind = "json"
  /\ lastResp.insert = "failed"
  /\ lastResp.status = 200

\* The Connected state of the adapter: the startup attempt ran to its end.
Connected == startupLog = "Successfully connected to MongoDB database"
Degraded == startupLog = "Continuing without database persistence..."

\* C2: GET /health reports database = "connected" if and only if the startup
\* connection attempt completed successfully (the adapter is Connected); in
\* every other state it reports "not connected".
C2_HealthConnectedIffConnected ==
  lastResp.database # ""
    => (lastResp.database = "connected" <=> Connected)

\* C3: after a startup attempt that failed at any step the port is bound and
\* the server behaves as when unconfigured: no webhook request attempts an
\* insert, and every webhook response is a 200 without id.
C3_DegradedNeverInserts ==
  Degraded
    => /\ pc \in {"listening", "exited"}
       /\ pending = {}
       /\ (IsWebhookResponse /\ lastResp.status = 200)
            => (lastResp.insert = "skipped" /\ lastResp.id = 0)

\* C4: the id of a webhook's 200 response is present if and only if that
\* request's insert succeeded, and it is then the identifier of the stored
\* record; when the insert throws or none is attempted the id is absent.
C4_IdIffInsertSucceeded ==
  (IsWebhookResponse /\ lastResp.status = 200)
    => /\ (lastResp.id # 0 <=> lastResp.insert = "ok")
       /\ lastResp.insert = "ok" => \E d \in stored : d._id = lastResp.id

\* C5: every webhook request the server started handling receives its
\* response, also when a termination signal arrives while its insert is
\* pending: at process exit no handler is left suspended without a response.
C5_NoRequestLeftUnanswered == pc = "exited" => pending = {}

\* A step in which a webhook request is accepted and handled: it is answered
\* at once, or it calls insertOne and suspends.
WebhookAccepted ==
  /\ HttpRequest
  /\ \/ nextId' = nextId + 1
     \/ lastResp'.method = "POST" /\ lastResp'.path = "/nahui-gpt/income"

\* C6: after a termination signal the connection is closed (or the close has
\* failed and been logged) before the process exits, and between the signal and
\* the exit no new webhook request is accepted and handled (none attempts an
\* insert on the connection being closed), also with a second signal.
C6_ShutdownClosesAndRefuses ==
  [][/\ signals > 0 => ~WebhookAccepted
     /\ (pc' = "exited" /\ conn # "none")
          => conn' \in {"closed", "close failed"}]_vars

\* C7: a 500 response carries the exception's detail in its error field only
\* when NODE_ENV is development; otherwise the error field is a generic string.
C7_DetailOnlyInDevelopment ==
  (lastResp.status = 500 /\ nodeEnv # "development")
    => lastResp.error = "Something went wrong"

DefinedRoute(method, path) ==
  \/ method = "POST" /\ path = "/nahui-gpt/income"
  \/ method = "GET" /\ path = "/health"

\* C8: every request whose (method, path) is neither POST /nahui-gpt/income
\* nor GET /health is answered 404 {"error": "Endpoint not found"}, for every
\* method and body, and the two defined routes never answer 404.
C8_UnmatchedAlways404 ==
  lastResp.method # ""
    => IF DefinedRoute(lastResp.method, lastResp.path)
         THEN lastResp.status # 404
         ELSE lastResp.status = 404 /\ lastResp.error = "Endpoint not found"

\* C8 as amended: a request that is no preflight (OPTIONS), whose body the
\* parsers accepted, and that matches neither route (HEAD /health matching
\* the GET route) is answered 404 {"error": "Endpoint not found"}; the two
\* defined routes never answer 404.
C8_UnmatchedReachingRouter404 ==
  lastResp.method # ""
    => IF DefinedRoute(lastResp.method, lastResp.path)
         THEN lastResp.status # 404
         ELSE (/\ lastResp.method # "OPTIONS"
               /\ lastResp.bodyKind \in {"json", "none"}
               /\ ~(lastResp.method = "HEAD" /\ lastResp.path = "/health"))
                => (lastResp.status = 404 /\ lastResp.error = "Endpoint not found")

\* C8 witness: a GET on the webhook path, with a JSON body, was answered 404.
C8_Witness ==
  /\ lastResp.method = "GET"
  /\ lastResp.path = "/nahui-gpt/income"
  /\ lastResp.bodyKind = "json"
  /\ lastResp.status = 404

\* C9: the derived message is a non-empty string: the payload's message field
\* when present, else its text field when present, else the serialization of
\* the payload, for every value the fields take and for array payloads.
C9_FirstPresentWins ==
  message # NoMessage
    => LET m == Field(webhookData, "message")
           t == Field(webhookData, "text")
       IN /\ message.t = "str"
          /\ message.s # ""
          /\ m # Absent => message = m
          /\ (m = Absent /\ t # Absent) => message = t
          /\ (m = Absent /\ t = Absent) => message = Str(Stringify(webhookData))

\* C9 as amended: the derived message is the payload's message field when it
\* is truthy, else its text field when that is truthy, else the serialization
\* of the payload; it is never empty (nor null, 0 or false).
C9_FirstTruthyWins ==
  message # NoMessage
    => LET m == Field(webhookData, "message")
           t == Field(webhookData, "text")
       IN /\ message # Str("")
          /\ message.t \in {"str", "num", "bool", "obj"}
          /\ message.t = "num" => message.n # 0
          /\ message.t = "bool" => message.b
          /\ Truthy(m) => message = m
          /\ (~Truthy(m) /\ Truthy(t)) => message = t
          /\ (~Truthy(m) /\ ~Truthy(t))
               => (message.t = "str" /\ message = Str(Stringify(webhookData)))

\* C9 witness: an empty message field was skipped and the text field taken.
C9_Witness ==
  /\ Field(webhookData, "message") = Str("")
  /\ Field(webhookData, "text") = Str("hi")
  /\ message = Str("hi")

\* C10: the database name used is the path segment of the connection string
\* when it has one (forms .../name and .../name?options) and 'shared-db' when
\* it has none (forms scheme://host[:port] and .../), never the host.
C10_NameIsPathSegment ==
  dbName # NoDbName
    => dbName = (IF url.form \in {"name", "name_options"} THEN url.name
                 ELSE "shared-db")

====
